---- MODULE Spec2Model ----
(***************************************************************************)
(* lunit: the test runner (src/lunit/test-runner.ts) as a state machine.   *)
(*                                                                         *)
(* An optional value (TypeScript `x?: T`) is a sequence: << >> is          *)
(* undefined and <<v>> is the value v.                                     *)
(***************************************************************************)
EXTENDS Integers, Sequences, FiniteSets, TLC

VARIABLES
    registry,      \* per class: the metadata the decorators attached to it
    isClient,      \* IS_CLIENT, RunService.IsClient() of the host
    testClasses,   \* TestRunner.testClasses: the collected [class, instance] pairs
    results,       \* TestRunner.results: class -> (test name -> TestCaseResult)
    failedTests,   \* TestRunner.failedTests
    passedTests,   \* TestRunner.passedTests
    skippedTests,  \* TestRunner.skippedTests
    options,       \* TestRunner.options of the current run (tags, reporter)
    pc,            \* where run() is suspended
    classIdx,      \* index in testClasses of the class batch in progress
    testList,      \* the resolved list of the class batch in progress
    testIdx,       \* index in testList of the test in progress
    runs,          \* number of run() calls started
    bodyLog,       \* observation: class -> (test name -> behaviour of its body in this run)
    hookRounds,    \* observation: class -> (annotation -> rounds run in this run)
    lastHook,      \* observation: the latest round of lifecycle callbacks
    resolved,      \* observation: class -> the resolved list of this run
    reporterLog,   \* observation: the calls made to the reporter in this run
    running,       \* the test bodies that were called and have not settled
    optionObjects, \* the option tables handed to addTest, by identity
    descriptorObject, \* class -> (method name -> identity of its option table)
    addTestCalls,  \* observation: the addTest calls made so far
    calls          \* observation: the decorator applications and the construction
                   \* of the runner, with what they raised

\* What the decorators have built on the classes.
registryVars == <<registry, optionObjects, descriptorObject, addTestCalls, calls>>

vars == <<registry, isClient, testClasses, results, failedTests, passedTests,
          skippedTests, options, pc, classIdx, testList, testIdx, runs,
          bodyLog, hookRounds, lastHook, resolved, reporterLog, running,
          optionObjects, descriptorObject, addTestCalls, calls>>

----
(* Bounds and program constants *)

MaxRuns == 2

MaxTagLen == 2

MaxCalls == 4

MaxRoots == 2

MaxApplications == 3

DEFAULT_ORDER == 999

TimeoutMs == 1000

----
(* Optional values *)

Undefined == << >>

Some(v) == <<v>>

IsDefined(o) == o # << >>

OrElse(o, d) == IF o = << >> THEN d ELSE o[1]

Range(s) == {s[i] : i \in 1..Len(s)}

EmptyMap == [x \in {} |-> {}]

MapSet(m, k, v) == [x \in (DOMAIN m) \cup {k} |-> IF x = k THEN v ELSE m[x]]

----
(* Descriptor model *)

Annotations == {"BeforeAll", "BeforeEach", "AfterEach", "AfterAll"}

Environments == {"Server", "Client"}

NoOptions ==
    [isATest |-> Undefined, displayName |-> Undefined, tags |-> Undefined,
     order |-> Undefined, timeout |-> Undefined, disabled |-> Undefined,
     environment |-> Undefined, negated |-> Undefined]

TestMethod(name, opts) == [name |-> name, options |-> opts]

Disabled(message) == [value |-> TRUE, message |-> message]

----
(* The test classes handed to the runner.  K1 follows                      *)
(* test/src/tests/shared/annotations.spec.ts (ordered tests, two callbacks *)
(* per lifecycle kind), K2 follows the tagged decorator suites.  The       *)
(* execution options of the tests are drawn when the classes are defined.  *)

Classes == <<"K1", "K2">>

MethodsOf(c) == IF c = "K1" THEN <<"m1", "m2", "m3">> ELSE <<"m4">>

OptionChoices(m) ==
    CASE m = "m1" ->
           {[NoOptions EXCEPT !.isATest = Some(TRUE), !.tags = Some(<<"Smoke">>),
                              !.timeout = t, !.disabled = d,
                              !.environment = e, !.negated = n] :
              t \in {Undefined, Some(TimeoutMs)},
              d \in {Undefined, Some(Disabled(Some("pending")))},
              e \in {Undefined} \cup {Some(x) : x \in Environments},
              n \in {Undefined, Some(TRUE)}}
      [] m = "m2" ->
           {[NoOptions EXCEPT !.isATest = Some(TRUE), !.order = Some(1),
                              !.displayName = Some("runs first"), !.disabled = d] :
              d \in {Undefined, Some(Disabled(Undefined)),
                     Some([value |-> FALSE, message |-> Undefined])}}
      [] m = "m3" ->
           {[NoOptions EXCEPT !.displayName = Some("not a test"), !.order = Some(0)]}
      [] OTHER ->
           {[NoOptions EXCEPT !.isATest = Some(TRUE), !.negated = n] :
              n \in {Undefined, Some(TRUE)}}

AnnotationsOf(c) ==
    IF c = "K1"
    THEN [a \in Annotations |->
            CASE a = "BeforeAll"  -> <<"beforeAllShouldBeOkay", "beforeAllShouldErrorAndBeOkay">>
              [] a = "BeforeEach" -> <<"beforeEachShouldBeOkay", "beforeEachShouldErrorAndBeOkay">>
              [] a = "AfterEach"  -> <<"afterEachShouldBeOkay", "afterEachShouldErrorAndBeOkay">>
              [] OTHER            -> <<"afterAllShouldBeOkay">>]
    ELSE [a \in Annotations |->
            IF a = "BeforeAll" THEN <<"beforeAll">> ELSE << >>]

ClassMetadataOf(c) ==
    IF c = "K1"
    THEN Some([displayName |-> Some("Annotation Tests"), tags |-> Undefined])
    ELSE Some([displayName |-> Some("@DisplayName Decorator"),
               tags |-> Some(<<"Decorator">>)])

\* What the decorators leave on the constructor of class c, the options of
\* its methods being opts (method name -> options).
ClassRegistry(c, opts) ==
    [testList |-> Some([i \in 1..Len(MethodsOf(c)) |->
                          TestMethod(MethodsOf(c)[i], opts[MethodsOf(c)[i]])]),
     annotations |-> AnnotationsOf(c),
     classMetadata |-> ClassMetadataOf(c)]

----
(* utils/array-utils.ts and utils/metadata.ts *)

\* sharesOneElement that probes only as many elements of the longer array
\* as the shorter one has.
SharesOneElementProbesPrefix(arr1, arr2) ==
    LET a == IF Len(arr1) > Len(arr2) THEN arr2 ELSE arr1
        b == IF Len(arr1) > Len(arr2) THEN arr1 ELSE arr2
    IN  \E i \in 1..Len(a) : b[i] \in Range(a)

\* The shorter array becomes the lookup set, the longer one is probed.
SharesOneElement(arr1, arr2) ==
    LET a == IF Len(arr1) > Len(arr2) THEN arr2 ELSE arr1
        b == IF Len(arr1) > Len(arr2) THEN arr1 ELSE arr2
        set == Range(a)
    IN  \E i \in 1..Len(b) : b[i] \in set

HasTestList(testClass) == IsDefined(registry[testClass].testList)

GetClassMetadata(testClass) == registry[testClass].classMetadata

GetAnnotation(testClass, annotation) == registry[testClass].annotations[annotation]

IndexPermutations(n) == {p \in [1..n -> 1..n] : \A i, j \in 1..n : i # j => p[i] # p[j]}

\* getValuesFromMap: forEach visits the entries of a table with string keys
\* in an order the language does not fix; list holds the values in the
\* order they were added, the result is the arrays the call may build.
GetValuesFromMap(list) ==
    {[i \in 1..Len(list) |-> list[p[i]]] : p \in IndexPermutations(Len(list))}

----
(* TestRunner.getTestsFromTestClass *)

\* The filter callback without the class tags: only the method's own tags count.
TestFilterMethodTagsOnly(testClass, val, tags) ==
    IF val.options.isATest # Some(TRUE) THEN FALSE
    ELSE IF Len(tags) > 0
         THEN SharesOneElement(tags, OrElse(val.options.tags, << >>))
         ELSE TRUE

\* The filter callback without the test on isATest: every method that has
\* a descriptor is a test.
TestFilterAnyDescriptor(testClass, val, tags) ==
    Len(tags) > 0 => TestFilterMethodTagsOnly(testClass, val, tags)

\* The filter callback: val is retained.
TestFilter(testClass, val, tags) ==
    IF val.options.isATest # Some(TRUE) THEN FALSE
    ELSE IF Len(tags) > 0
         THEN LET classMetadata == GetClassMetadata(testClass)
                  methodTags == OrElse(val.options.tags, << >>)
                  classTags == IF IsDefined(classMetadata)
                               THEN OrElse(classMetadata[1].tags, << >>)
                               ELSE << >>
              IN  SharesOneElement(tags, classTags) \/ SharesOneElement(tags, methodTags)
         ELSE TRUE

EffectiveOrder(t) == OrElse(t.options.order, DEFAULT_ORDER)

\* The sort comparator: a comes before b.
OrderCompare(a, b) == EffectiveOrder(a) <= EffectiveOrder(b)

\* The arrays table.sort may leave: the comparator is not strict, so the
\* relative order of descriptors it calls equal both ways is not determined.
\* (Arrays of up to three elements: with more, and equal orders among them,
\* the sort may also raise "invalid order function for sorting".)
SortOutcomes(s) ==
    {t \in {[i \in 1..Len(s) |-> s[p[i]]] : p \in IndexPermutations(Len(s))} :
       \A i, j \in 1..Len(s) :
          i < j => OrderCompare(t[i], t[j])}

\* The resolved lists the call may return.
GetTestsFromTestClass(testClass, tags) ==
    IF ~HasTestList(testClass) THEN {<< >>}
    ELSE LET list == registry[testClass].testList[1]
             Keep(val) == TestFilter(testClass, val, tags)
         IN  UNION {SortOutcomes(SelectSeq(values, Keep)) :
                      values \in GetValuesFromMap(list)}

----
(* Test bodies and lifecycle callbacks: what they may do when called *)

NilValue == [type |-> "nil"]

StringValue(str) == [type |-> "string", value |-> str]

\* Lua tostring of a thrown value.
Tostring(e) == IF e.type = "nil" THEN "nil" ELSE e.value

BodyDurations == {5, 5000}

\* A body returns or throws e, ms milliseconds after it is called.
Returns(ms) == [kind |-> "return", ms |-> ms, err |-> NilValue]

Throws(e, ms) == [kind |-> "throw", ms |-> ms, err |-> e]

\* A body that waits for something that never happens: at twice the timeout
\* of the model, as at any other time, it has not settled.
Hangs == [kind |-> "never", ms |-> 2 * TimeoutMs, err |-> NilValue]

BodyChoices(m) ==
    IF m = "m1"
    THEN {Returns(ms) : ms \in BodyDurations}
           \cup {Throws(StringValue("boom"), 5), Throws(NilValue, 5000)}
    ELSE {Returns(5), Throws(NilValue, 5)}

----
(* TestRunner.runTestClass: handleTestResult, addResult, skipTest *)

TestIsOnRightEnvironment(environment) ==
    \/ (isClient = TRUE /\ environment = "Client")
    \/ (isClient = FALSE /\ environment = "Server")

TimeoutMessage(timeout) == "Test exceeded timeout of " \o ToString(timeout) \o "ms"

NegatedMessage == "Test was marked as a negative test and unexpectedly did not error"

EnvironmentMessage(environment) ==
    "Test needs to run on " \o environment \o " environment"

\* handleTestResult, the branch with a timeout: the body races the timer and
\* only the status of the race is read.
RaceResult(timeout, beh) ==
    LET status == IF beh.ms >= timeout THEN "Rejected"
                  ELSE IF beh.kind = "return" THEN "Resolved"
                  ELSE "Rejected"
        timeElapsed == IF beh.ms >= timeout THEN timeout ELSE beh.ms
    IN  IF status = "Resolved"
        THEN [passed |-> TRUE, timeElapsed |-> timeElapsed, skipped |-> FALSE,
              errorMessage |-> Undefined]
        ELSE [passed |-> FALSE, timeElapsed |-> timeElapsed, skipped |-> FALSE,
              errorMessage |-> Some(TimeoutMessage(timeout))]

\* handleTestResult, the branch without a timeout: the body is awaited.
AwaitResult(beh) ==
    IF beh.kind = "return"
    THEN [passed |-> TRUE, timeElapsed |-> beh.ms, skipped |-> FALSE,
          errorMessage |-> Undefined]
    ELSE [passed |-> FALSE, errorMessage |-> Some(Tostring(beh.err)),
          timeElapsed |-> beh.ms, skipped |-> FALSE]

\* handleTestResult without the race: the body is awaited whatever the timeout.
HandleTestResultNoRace(test, beh) == AwaitResult(beh)

\* handleTestResult whose catch block drops the thrown error.
HandleTestResultNoMessage(test, beh) ==
    IF IsDefined(test.options.timeout)
    THEN RaceResult(test.options.timeout[1], beh)
    ELSE [AwaitResult(beh) EXCEPT !.errorMessage = Undefined]

\* handleTestResult: the result it hands to addResult when the body behaves as beh.
HandleTestResult(test, beh) ==
    LET timeout == test.options.timeout
    IN  IF IsDefined(timeout)
        THEN RaceResult(timeout[1], beh)
        ELSE AwaitResult(beh)

\* tostring(testClass) of a class without display name.
ClassName(testClass) ==
    LET md == GetClassMetadata(testClass)
    IN  IF IsDefined(md) THEN OrElse(md[1].displayName, testClass) ELSE testClass

\* addResult that stores the result as handed in, negation not applied.
NewResultNoNegation(testClass, test, result) ==
    [passed |-> result.passed,
     timeElapsed |-> result.timeElapsed,
     skipped |-> result.skipped,
     className |-> ClassName(testClass.class),
     classInstance |-> testClass.instance,
     errorMessage |-> result.errorMessage]

\* addResult that inverts passed for every negated test, a skipped one
\* included.
NewResultInvertsSkipped(testClass, test, result) ==
    [passed |-> IF test.options.negated = Some(TRUE)
                THEN ~result.passed ELSE result.passed,
     timeElapsed |-> result.timeElapsed,
     skipped |-> result.skipped,
     className |-> ClassName(testClass.class),
     classInstance |-> testClass.instance,
     errorMessage |-> result.errorMessage]

\* addResult: the TestCaseResult it stores for `result`; testClass is the
\* [class, instance] pair of the batch.
NewResult(testClass, test, result) ==
    LET isNegated == test.options.negated
    IN  [passed |-> IF isNegated = Some(TRUE) /\ result.skipped = FALSE
                    THEN ~result.passed ELSE result.passed,
         timeElapsed |-> result.timeElapsed,
         skipped |-> result.skipped,
         className |-> ClassName(testClass.class),
         classInstance |-> testClass.instance,
         errorMessage |->
            IF isNegated = Some(TRUE)
            THEN IF (~result.passed) = TRUE /\ result.skipped # TRUE
                 THEN Some("")
                 ELSE Some(NegatedMessage)
            ELSE result.errorMessage]

\* addResult: the counters after newResult is stored, st holding them before.
CountResult(st, newResult) ==
    IF newResult.passed
    THEN [passedTests |-> st.passedTests + 1, failedTests |-> st.failedTests,
          skippedTests |-> st.skippedTests]
    ELSE IF newResult.skipped = TRUE
         THEN [passedTests |-> st.passedTests, failedTests |-> st.failedTests,
               skippedTests |-> st.skippedTests + 1]
         ELSE [passedTests |-> st.passedTests, failedTests |-> st.failedTests + 1,
               skippedTests |-> st.skippedTests]

\* addResult: the result map res after newResult is stored for (testClass, test).
StoreResult(res, testClass, test, newResult) ==
    LET classResults == IF testClass \in DOMAIN res THEN res[testClass]
                        ELSE EmptyMap
    IN  MapSet(res, testClass, MapSet(classResults, test.name, newResult))

\* skipTest: the result it hands to addResult; the reason defaults to "".
SkipResult(reason) ==
    [passed |-> FALSE, skipped |-> TRUE, timeElapsed |-> 0,
     errorMessage |-> Some(OrElse(reason, ""))]

\* handleTestResult, the catch block: the result for the caught error e.
CaughtResult(e, timeElapsed) ==
    [passed |-> FALSE, errorMessage |-> Some(Tostring(e)),
     timeElapsed |-> timeElapsed, skipped |-> FALSE]

\* resetResults that clears the result map and leaves the counters.
ResetResultsKeepsCounters ==
    [results |-> EmptyMap, failedTests |-> failedTests, passedTests |-> passedTests,
     skippedTests |-> skippedTests]

\* resetResults
ResetResults ==
    [results |-> EmptyMap, failedTests |-> 0, passedTests |-> 0, skippedTests |-> 0]

Min(S) == CHOOSE x \in S : \A y \in S : x <= y

\* runAnnotatedMethods without the catch around each callback: the first
\* callback that throws ends the round.
RunAnnotatedMethodsStopAtThrow(cbs, thrown) ==
    [invoked |-> IF thrown = {} THEN cbs ELSE SubSeq(cbs, 1, Min(thrown)),
     escaped |-> FALSE, failedTests |-> failedTests]

\* runAnnotatedMethods that counts a throwing callback as a failed test.
RunAnnotatedMethodsCountsFailure(cbs, thrown) ==
    [invoked |-> cbs, escaped |-> FALSE,
     failedTests |-> IF thrown = {} THEN failedTests ELSE failedTests + 1]

\* runAnnotatedMethods without any catch: a callback that throws ends the
\* round and the error escapes to run().
RunAnnotatedMethodsEscapes(cbs, thrown) ==
    [invoked |-> IF thrown = {} THEN cbs ELSE SubSeq(cbs, 1, Min(thrown)),
     escaped |-> thrown # {}, failedTests |-> failedTests]

\* runAnnotatedMethods on the callbacks cbs, of which those at the indices
\* in thrown throw: the callbacks invoked, whether an error escapes the
\* call, and the failed counter afterwards.
RunAnnotatedMethods(cbs, thrown) ==
    [invoked |-> cbs, escaped |-> FALSE, failedTests |-> failedTests]

----
(* The reporter of a run *)

ReporterCallbacks ==
    {"onRunStart", "onRunEnd", "onTestStart", "onTestEnd",
     "onTestPassed", "onTestSkipped", "onTestFailed"}

\* A Reporter; its callbacks in `raises` raise when they are called.
Reporter(raises) == [raises |-> raises]

\* What a raising reporter callback throws.
ReporterError == StringValue("reporter error")

\* One call of a reporter callback and its arguments.
Notification(callback, testName, message, result) ==
    [callback |-> callback, testName |-> testName, message |-> message,
     result |-> result]

\* this.options.reporter?.callback(...): the calls made so far and whether
\* this one raised.
Notify(reporter, log, n) ==
    IF reporter = Undefined
    THEN [log |-> log, raised |-> FALSE]
    ELSE [log |-> Append(log, n), raised |-> n.callback \in reporter[1].raises]

----
(* The runner *)

\* The instance tree the roots are taken from: the folder shared holds the
\* modules of K1 and K2 and a module that exports no class; the K2 module
\* lies in its child folder decorators.
Roots == {"shared", "decorators"}

\* getDescendantsOfType(root, "ModuleScript")
GetDescendantsOfType(root) ==
    IF root = "shared" THEN <<"annotations.spec", "reporter", "@DisplayName">>
    ELSE <<"@DisplayName">>

\* require(module): the class the module exports, if it exports one.
Require(module) ==
    CASE module = "annotations.spec" -> Some("K1")
      [] module = "@DisplayName"     -> Some("K2")
      [] OTHER                       -> Undefined

RECURSIVE Flatten(_)
Flatten(arr) == IF arr = << >> THEN << >> ELSE Head(arr) \o Flatten(Tail(arr))

\* addClass: list is testClasses before the call; a new instance is pushed
\* with the class.
AddClass(list, ctor) ==
    IF ctor = Undefined THEN list
    ELSE Append(list, [class |-> ctor[1], instance |-> Len(list) + 1])

RECURSIVE CollectClasses(_, _)
CollectClasses(list, modules) ==
    IF modules = << >> THEN list
    ELSE CollectClasses(AddClass(list, Require(Head(modules))), Tail(modules))

\* new TestRunner(roots): testClasses after construction.
Constructor(roots) ==
    CollectClasses(<< >>, Flatten([i \in 1..Len(roots) |-> GetDescendantsOfType(roots[i])]))

NoHook == [class |-> "", instance |-> 0, kind |-> "", invoked |-> << >>, threw |-> FALSE]

NoRounds ==
    [c \in {testClasses[i].class : i \in 1..Len(testClasses)} |->
       [a \in Annotations |-> 0]]

\* options ?? {}
NoRunOptions == [tags |-> Undefined, reporter |-> Undefined]

\* The options a caller passes to run(): none, a tag filter, or a reporter.
RunOptions ==
    {Undefined,
     Some([tags |-> Some(<<"Smoke">>), reporter |-> Undefined]),
     Some([tags |-> Undefined, reporter |-> Some(Reporter({}))])}

\* The fields of a TestRunner after construction, before any run().
NewRunner ==
    /\ results = EmptyMap
    /\ failedTests = 0
    /\ passedTests = 0
    /\ skippedTests = 0
    /\ options = NoRunOptions
    /\ pc = "idle"
    /\ classIdx = 0
    /\ testList = << >>
    /\ testIdx = 0
    /\ runs = 0
    /\ bodyLog = << >>
    /\ hookRounds = NoRounds
    /\ lastHook = NoHook
    /\ resolved = EmptyMap
    /\ reporterLog = << >>
    /\ running = {}

\* The classes are decorated when their modules are loaded; the registry
\* holds the outcome and the runner does not change it.
Decorated ==
    /\ optionObjects = EmptyMap
    /\ descriptorObject = EmptyMap
    /\ addTestCalls = << >>
    /\ calls = << >>

Init ==
    /\ \E o1 \in OptionChoices("m1"), o2 \in OptionChoices("m2"),
          o3 \in OptionChoices("m3"), o4 \in OptionChoices("m4") :
          registry = [c \in Range(Classes) |->
                        ClassRegistry(c, [m \in {"m1", "m2", "m3", "m4"} |->
                                            CASE m = "m1" -> o1 [] m = "m2" -> o2
                                              [] m = "m3" -> o3 [] OTHER -> o4])]
    /\ isClient \in BOOLEAN
    /\ testClasses = Constructor(<<"shared">>)
    /\ NewRunner
    /\ Decorated

CurrentClass == testClasses[classIdx].class

\* A runner that constructs the class again for each run.
NewInstancePerRun == testClasses[classIdx].instance + Len(testClasses) * (runs - 1)

CurrentInstance == testClasses[classIdx].instance

\* The runner's record of results and the reporter's record of calls.
Current ==
    [results |-> results, passedTests |-> passedTests, failedTests |-> failedTests,
     skippedTests |-> skippedTests, reporterLog |-> reporterLog]

Commit(st) ==
    /\ results' = st.results
    /\ passedTests' = st.passedTests
    /\ failedTests' = st.failedTests
    /\ skippedTests' = st.skippedTests
    /\ reporterLog' = st.reporterLog

\* runTestClass up to its first await: the resolved list of class number i.
EnterClass(i, res) ==
    /\ classIdx' = i
    /\ \E list \in GetTestsFromTestClass(testClasses[i].class,
                                        OrElse(options'.tags, << >>)) :
          /\ testList' = list
          /\ resolved' = MapSet(res, testClasses[i].class, list)
    /\ testIdx' = 0
    /\ pc' = "beforeAll"

\* The end of run(): onRunEnd, then the result map is returned, unless the
\* reporter raises and the promise of run() is rejected.
EndRun(log) ==
    LET n == Notify(options'.reporter, log,
                    Notification("onRunEnd", "", Undefined, Undefined))
    IN  /\ reporterLog' = n.log
        /\ pc' = IF n.raised THEN "rejected" ELSE "done"

\* A runner that keeps the options of the run before when run() is called
\* without options.
ThisOptionsKept(opts) == IF IsDefined(opts) THEN opts[1] ELSE options

\* this.options = options ?? {}
ThisOptions(opts) == OrElse(opts, NoRunOptions)

\* run(options): the reset, onRunStart and the start of the first class
\* batch; seen is the record of the arguments of the run() calls after it.
RunWith(opts, seen) ==
    /\ pc \in {"idle", "done", "aborted", "rejected"}
    /\ runs < MaxRuns
    /\ runs' = runs + 1
    /\ options' = ThisOptions(opts)
    /\ LET r == ResetResults
       IN  /\ results' = r.results
           /\ failedTests' = r.failedTests
           /\ passedTests' = r.passedTests
           /\ skippedTests' = r.skippedTests
    /\ bodyLog' = << >>
    /\ hookRounds' = NoRounds
    /\ lastHook' = NoHook
    /\ LET n == Notify(options'.reporter, << >>,
                       Notification("onRunStart", "", Undefined, Undefined))
       IN  IF n.raised
           THEN /\ reporterLog' = n.log
                /\ pc' = "rejected"
                /\ resolved' = EmptyMap
                /\ UNCHANGED <<classIdx, testList, testIdx>>
           ELSE IF Len(testClasses) = 0
                THEN /\ EndRun(n.log)
                     /\ resolved' = EmptyMap
                     /\ UNCHANGED <<classIdx, testList, testIdx>>
                ELSE /\ reporterLog' = n.log
                     /\ EnterClass(1, EmptyMap)
    /\ calls' = seen
    /\ UNCHANGED <<registry, optionObjects, descriptorObject, addTestCalls, isClient,
                   testClasses, running>>

Run(opts) == RunWith(opts, calls)

\* One round of runAnnotatedMethods for the current class; `after` is where
\* runTestClass continues when the round returns.
HookRound(annotation, after) ==
    \E thrown \in SUBSET (1..Len(GetAnnotation(CurrentClass, annotation))) :
       LET r == RunAnnotatedMethods(GetAnnotation(CurrentClass, annotation), thrown)
       IN  /\ lastHook' = [class |-> CurrentClass, instance |-> CurrentInstance,
                           kind |-> annotation,
                           invoked |-> r.invoked, threw |-> thrown # {}]
           /\ hookRounds' = [hookRounds EXCEPT ![CurrentClass][annotation] = @ + 1]
           /\ failedTests' = r.failedTests
           /\ pc' = IF r.escaped THEN "aborted" ELSE after

\* A class batch that runs the AfterAll round after each test.
NextTestPcAfterAllEachTest == "afterAll"

\* After a test (run or skipped): the next test, or the AfterAll round.
NextTestPc == IF testIdx < Len(testList) THEN "beforeEach" ELSE "afterAll"

BeforeAll ==
    /\ pc = "beforeAll"
    /\ HookRound("BeforeAll", IF Len(testList) > 0 THEN "beforeEach" ELSE "afterAll")
    /\ UNCHANGED <<registryVars, isClient, testClasses, results, passedTests,
                   skippedTests, options, classIdx, testList, testIdx, runs, bodyLog,
                   resolved, reporterLog, running>>

BeforeEach ==
    /\ pc = "beforeEach"
    /\ HookRound("BeforeEach", "test")
    /\ testIdx' = testIdx + 1
    /\ UNCHANGED <<registryVars, isClient, testClasses, results, passedTests,
                   skippedTests, options, classIdx, testList, runs, bodyLog, resolved,
                   reporterLog, running>>

\* addResult that hands onTestEnd a result of its own making, passed and
\* not skipped whatever the outcome.
AddResultReportsPass(st, test, result) ==
    LET newResult == NewResult(testClasses[classIdx], test, result)
        counters == CountResult(st, newResult)
        name == OrElse(test.options.displayName, test.name)
        n2 == Notify(options.reporter, st.reporterLog,
                     Notification("onTestEnd", name, Undefined,
                                  Some([newResult EXCEPT !.passed = TRUE,
                                                         !.skipped = FALSE])))
    IN  [results |-> StoreResult(st.results, CurrentClass, test, newResult),
         passedTests |-> counters.passedTests,
         failedTests |-> counters.failedTests,
         skippedTests |-> counters.skippedTests,
         reporterLog |-> n2.log,
         raised |-> n2.raised]

\* addResult(test, result) on the record st: the result is stored and
\* counted, then the reporter is told the outcome and the end of the test;
\* a reporter callback that raises ends the call there.
AddResult(st, test, result) ==
    LET newResult == NewResult(testClasses[classIdx], test, result)
        counters == CountResult(st, newResult)
        name == OrElse(test.options.displayName, test.name)
        outcome ==
            IF newResult.passed
            THEN Notification("onTestPassed", name, Undefined, Undefined)
            ELSE IF newResult.skipped = TRUE
                 THEN Notification("onTestSkipped", name, newResult.errorMessage, Undefined)
                 ELSE Notification("onTestFailed", name, newResult.errorMessage, Undefined)
        n1 == Notify(options.reporter, st.reporterLog, outcome)
        n2 == Notify(options.reporter, n1.log,
                     Notification("onTestEnd", name, Undefined, Some(newResult)))
    IN  [results |-> StoreResult(st.results, CurrentClass, test, newResult),
         passedTests |-> counters.passedTests,
         failedTests |-> counters.failedTests,
         skippedTests |-> counters.skippedTests,
         reporterLog |-> IF n1.raised THEN n1.log ELSE n2.log,
         raised |-> n1.raised \/ n2.raised]

\* The reason a test of the loop is skipped for, if it is.
IsDisabled(test) ==
    IsDefined(test.options.disabled) /\ test.options.disabled[1].value = TRUE

IsOffEnvironment(test) ==
    /\ IsDefined(test.options.environment)
    /\ ~TestIsOnRightEnvironment(test.options.environment[1])

\* The loop body for a disabled or off-environment test: skipTest, continue.
\* skipTest is not awaited: an error raised in it is dropped with its promise.
SkipTest ==
    /\ pc = "test"
    /\ LET test == testList[testIdx]
       IN  /\ IsDisabled(test) \/ IsOffEnvironment(test)
           /\ Commit(AddResult(Current, test,
                 SkipResult(IF IsDisabled(test) THEN test.options.disabled[1].message
                            ELSE Some(EnvironmentMessage(test.options.environment[1])))))
    /\ pc' = NextTestPc
    /\ UNCHANGED <<registryVars, isClient, testClasses, options, classIdx, testList,
                   testIdx, runs, bodyLog, hookRounds, lastHook, resolved, running>>

\* A test body that was called: on which instance, in which run, and what
\* it does.
Body(testClass, name, run, beh) ==
    [class |-> testClass.class, instance |-> testClass.instance, name |-> name,
     run |-> run, beh |-> beh]

\* The body handleTestResult is waiting for.
CurrentBody ==
    CHOOSE b \in running :
       /\ b.class = CurrentClass
       /\ b.instance = CurrentInstance
       /\ b.name = testList[testIdx].name
       /\ b.run = runs

\* A runner that starts the body and goes on without waiting for it.
NeverAwaited(test, beh) == TRUE

\* The body of b is still running when handleTestResult stops waiting for it.
IsAbandoned(test, beh) ==
    IsDefined(test.options.timeout) /\ beh.ms >= test.options.timeout[1]

\* The loop body for the other tests, first half: handleTestResult calls
\* the body, with the instance of the class, and waits.
CallBody ==
    /\ pc = "test"
    /\ LET test == testList[testIdx]
       IN  /\ ~IsDisabled(test)
           /\ ~IsOffEnvironment(test)
           /\ \E beh \in BodyChoices(test.name) :
                 running' = running \cup {Body([class |-> CurrentClass,
                                                  instance |-> CurrentInstance],
                                                 test.name, runs, beh)}
    /\ pc' = "body"
    /\ UNCHANGED <<registryVars, isClient, testClasses, results, failedTests,
                   passedTests, skippedTests, options, classIdx, testList, testIdx,
                   runs, bodyLog, hookRounds, lastHook, resolved, reporterLog>>

\* handleTestResult, from the result of the wait to its end: addResult, and
\* addResult again from the catch block when the first call raised; an
\* error raised there is swallowed by the catch of the caller.
RecordResult(st, test, beh) ==
    LET first == AddResult(st, test, HandleTestResult(test, beh))
    IN  IF first.raised
        THEN AddResult(first, test,
                       CaughtResult(ReporterError, HandleTestResult(test, beh).timeElapsed))
        ELSE first

\* A runner whose wait ends only when the body settles.
WaitEndsWhenBodySettles(test, beh) == beh.kind # "never"

\* The wait of handleTestResult comes to an end: awaitStatus returns when the
\* body settles or the timer of the race fires, await when the body settles.
WaitEnds(test, beh) == IsDefined(test.options.timeout) \/ beh.kind # "never"

\* The loop body for the other tests, second half: the wait is over (the
\* body has settled or the timeout has elapsed) and the result is recorded.
\* The runner does not cancel a body that outlived its timeout; whether the
\* promise that lost the race stops it is left to the promise library.
ExecuteTest ==
    /\ pc = "body"
    /\ LET test == testList[testIdx]
           b == CurrentBody
       IN  /\ WaitEnds(test, b.beh)
           /\ bodyLog' = Append(bodyLog, [class |-> b.class, instance |-> b.instance,
                                          name |-> b.name, beh |-> b.beh])
           /\ running' \in IF IsAbandoned(test, b.beh)
                           THEN {running, running \ {b}}
                           ELSE {running \ {b}}
           /\ Commit(RecordResult(Current, test, b.beh))
    /\ pc' = "afterEach"
    /\ UNCHANGED <<registryVars, isClient, testClasses, options, classIdx, testList,
                   testIdx, runs, hookRounds, lastHook, resolved>>

\* What the runner does when an abandoned body settles, recording its
\* outcome as a result of its test.
LateSettlementRecords(b) ==
    AddResult(Current, TestMethod(b.name, NoOptions), AwaitResult(b.beh))

\* What the runner does when an abandoned body b settles: nothing is
\* attached to the promise of the body once the race is over.
LateSettlement(b) == Current

\* A body that outlived its timeout returns or throws.
AbandonedBodySettles ==
    /\ \E b \in running :
          /\ pc = "body" => b # CurrentBody
          /\ b.beh.kind # "never"
          /\ running' = running \ {b}
          /\ Commit(LateSettlement(b))
    /\ UNCHANGED <<registryVars, isClient, testClasses, options, pc, classIdx, testList,
                   testIdx, runs, bodyLog, hookRounds, lastHook, resolved>>

AfterEach ==
    /\ pc = "afterEach"
    /\ HookRound("AfterEach", NextTestPc)
    /\ UNCHANGED <<registryVars, isClient, testClasses, results, passedTests,
                   skippedTests, options, classIdx, testList, testIdx, runs, bodyLog,
                   resolved, reporterLog, running>>

\* The AfterAll round, then the next class batch or the end of run().
AfterAll ==
    /\ pc = "afterAll"
    /\ options' = options
    /\ \E thrown \in SUBSET (1..Len(GetAnnotation(CurrentClass, "AfterAll"))) :
          LET r == RunAnnotatedMethods(GetAnnotation(CurrentClass, "AfterAll"), thrown)
          IN  /\ lastHook' = [class |-> CurrentClass, instance |-> CurrentInstance,
                              kind |-> "AfterAll",
                              invoked |-> r.invoked, threw |-> thrown # {}]
              /\ hookRounds' = [hookRounds EXCEPT ![CurrentClass]["AfterAll"] = @ + 1]
              /\ failedTests' = r.failedTests
              /\ IF r.escaped
                 THEN /\ pc' = "aborted"
                      /\ UNCHANGED <<classIdx, testList, testIdx, resolved, reporterLog>>
                 ELSE IF classIdx < Len(testClasses)
                      THEN /\ EnterClass(classIdx + 1, resolved)
                           /\ UNCHANGED reporterLog
                      ELSE /\ EndRun(reporterLog)
                           /\ UNCHANGED <<classIdx, testList, testIdx, resolved>>
    /\ UNCHANGED <<registryVars, isClient, testClasses, results, passedTests,
                   skippedTests, runs, bodyLog, running>>

Next ==
    \/ \E opts \in RunOptions : Run(opts)
    \/ BeforeAll
    \/ BeforeEach
    \/ SkipTest
    \/ CallBody
    \/ ExecuteTest
    \/ AbandonedBodySettles
    \/ AfterEach
    \/ AfterAll

Spec == Init /\ [][Next]_vars

----
(* Observations used by the properties *)

TestOf(c, name) == CHOOSE t \in Range(registry[c].testList[1]) : t.name = name

HasResult(c, name) == c \in DOMAIN results /\ name \in DOMAIN results[c]

\* The recorded results as (class, test name) pairs.
Recorded == UNION {{<<c, n>> : n \in DOMAIN results[c]} : c \in DOMAIN results}

IsPass(r) == r.passed = TRUE /\ r.skipped = FALSE

IsFail(r) == r.passed = FALSE /\ r.skipped = FALSE

IsSkip(r) == r.passed = FALSE /\ r.skipped = TRUE

\* The counters agree with the categories of the recorded results.
CountersMatchResults ==
    /\ passedTests = Cardinality({k \in Recorded : IsPass(results[k[1]][k[2]])})
    /\ failedTests = Cardinality({k \in Recorded : IsFail(results[k[1]][k[2]])})
    /\ skippedTests = Cardinality({k \in Recorded : IsSkip(results[k[1]][k[2]])})

\* Number of times the body of (c, name) was called in this run.
BodyCalls(c, name) ==
    Cardinality({i \in 1..Len(bodyLog) : bodyLog[i].class = c /\ bodyLog[i].name = name})

\* The body of log entry e was still running when its timeout elapsed.
TimedOut(e) ==
    LET t == TestOf(e.class, e.name)
    IN  IsDefined(t.options.timeout) /\ e.beh.ms >= t.options.timeout[1]

IsNegated(t) == t.options.negated = Some(TRUE)

\* The result of a log entry is recorded once the step that called the body is over.
LoggedResult(e) == results[e.class][e.name]

----
----
(* C2: a disabled test of a resolved list never has its body called and    *)
(* is recorded as skipped (passed=false, skipped=true, timeElapsed=0) with *)
(* the configured disabled.message, whatever its other options.            *)
C2_DisabledIsSkippedWithItsMessage ==
    \A c \in DOMAIN resolved :
       \A j \in 1..Len(resolved[c]) :
          LET t == resolved[c][j]
          IN  IsDisabled(t) =>
                /\ BodyCalls(c, t.name) = 0
                /\ HasResult(c, t.name) =>
                     /\ IsSkip(results[c][t.name])
                     /\ results[c][t.name].timeElapsed = 0
                     /\ results[c][t.name].errorMessage =
                           Some(OrElse(t.options.disabled[1].message, ""))

----
(* C3: in every class batch the AfterEach callbacks are run for every test *)
(* of the resolved list, skipped tests included, so a finished run has     *)
(* as many AfterEach rounds as BeforeEach rounds in each class.            *)
C3_AfterEachForEveryTest ==
    pc = "done" =>
       \A c \in DOMAIN resolved :
          /\ hookRounds[c]["AfterEach"] = Len(resolved[c])
          /\ hookRounds[c]["AfterEach"] = hookRounds[c]["BeforeEach"]

----
(* C4: after any number of sequential run() calls the counters and the     *)
(* result map are those of the most recent run alone: one result per test  *)
(* of that run's resolved lists, each the outcome of that run's body, and  *)
(* counters that count exactly these results.                              *)
C4_RunsDoNotAccumulate ==
    pc = "done" =>
       /\ DOMAIN results = {c \in DOMAIN resolved : Len(resolved[c]) > 0}
       /\ \A c \in DOMAIN results :
             DOMAIN results[c] = {resolved[c][j].name : j \in 1..Len(resolved[c])}
       /\ passedTests + failedTests + skippedTests = Cardinality(Recorded)
       /\ CountersMatchResults
       /\ \A i \in 1..Len(bodyLog) :
             LET e == bodyLog[i]
                 t == TestOf(e.class, e.name)
             IN  LoggedResult(e) = NewResult([class |-> e.class, instance |-> e.instance],
                                             t, HandleTestResult(t, e.beh))

C4_Witness ==
    /\ pc = "done"
    /\ runs >= 2
    /\ passedTests > 0
    /\ failedTests > 0

----
(* C5: a lifecycle callback that throws does not prevent the remaining     *)
(* callbacks of its round, the current test body, or any later test: every *)
(* round calls all the callbacks registered for its kind, the run is never *)
(* aborted, a test that is not skipped has its body called after a         *)
(* throwing BeforeEach round, and a finished run has a result for every    *)
(* test of every resolved list.                                            *)
C5_ThrowingHookStopsNothing ==
    /\ pc # "aborted"
    /\ lastHook # NoHook =>
          lastHook.invoked = GetAnnotation(lastHook.class, lastHook.kind)
    /\ pc = "afterEach" => BodyCalls(CurrentClass, testList[testIdx].name) = 1
    /\ pc = "done" =>
          \A c \in DOMAIN resolved :
             \A j \in 1..Len(resolved[c]) :
                /\ HasResult(c, resolved[c][j].name)
                /\ ~IsSkip(results[c][resolved[c][j].name]) =>
                      BodyCalls(c, resolved[c][j].name) = 1

C5_Witness ==
    /\ pc = "afterEach"
    /\ lastHook.kind = "BeforeEach"
    /\ lastHook.threw
    /\ Len(lastHook.invoked) = 2
    /\ testIdx = 2

HookPcs == {"beforeAll", "beforeEach", "afterEach", "afterAll"}

\* A step taken from a round of callbacks.
HookStepIsNeutral ==
    pc \in HookPcs =>
       /\ results' = results
       /\ passedTests' = passedTests
       /\ failedTests' = failedTests
       /\ skippedTests' = skippedTests
       /\ pc' # "aborted"

----
(* C6: a lifecycle callback that throws changes neither the counters nor   *)
(* any recorded result: a round of callbacks, throwing or not, leaves the  *)
(* result map and the three counters as they were and does not end the run.*)

C6_HooksLeaveResultsAlone == [][HookStepIsNeutral]_vars

C6_Witness ==
    /\ lastHook.kind = "AfterEach"
    /\ lastHook.threw
    /\ passedTests + failedTests > 0

----
----
(* C8: a test that is not negated, not skipped and has no timeout records  *)
(* PASS when its body completes and FAIL with the stringified thrown error *)
(* as message when its body throws.                                        *)
C8_PlainOutcome ==
    \A i \in 1..Len(bodyLog) :
       LET e == bodyLog[i]
           t == TestOf(e.class, e.name)
       IN  (~IsNegated(t) /\ ~IsDefined(t.options.timeout)) =>
             /\ e.beh.kind = "return" => IsPass(LoggedResult(e))
             /\ e.beh.kind = "throw" =>
                  /\ IsFail(LoggedResult(e))
                  /\ LoggedResult(e).errorMessage =
                        Some(IF e.beh.err = NilValue THEN "nil" ELSE e.beh.err.value)

C8_Witness ==
    \E i \in 1..Len(bodyLog) :
       LET e == bodyLog[i]
           t == TestOf(e.class, e.name)
       IN  /\ ~IsNegated(t)
           /\ ~IsDefined(t.options.timeout)
           /\ e.beh = Throws(StringValue("boom"), 5)
           /\ failedTests > 0

----
(* C9: with a timeout configured, the timeout message is recorded only     *)
(* when the timeout elapses before the body settles: a body of a test that *)
(* is not negated records FAIL with the stringified thrown error when it   *)
(* throws before the timeout, and PASS when it completes before it.        *)
C9_TimeoutMessageOnlyOnTimeout ==
    \A i \in 1..Len(bodyLog) :
       LET e == bodyLog[i]
           t == TestOf(e.class, e.name)
       IN  (IsDefined(t.options.timeout) /\ ~IsNegated(t) /\ ~TimedOut(e)) =>
             /\ e.beh.kind = "return" => IsPass(LoggedResult(e))
             /\ e.beh.kind = "throw" =>
                  /\ IsFail(LoggedResult(e))
                  /\ LoggedResult(e).errorMessage = Some(Tostring(e.beh.err))

----
(* getTestsFromTestClass on its own: one class F whose tags, and the tags  *)
(* and Test mark of whose method f1, are drawn; f2 is an untagged test.    *)

TagNames == {"A", "B", "C"}

TagLists == UNION {[1..k -> TagNames] : k \in 0..MaxTagLen}

OptionalTagLists == {Undefined} \cup {Some(l) : l \in TagLists}

FilterClassMetadata ==
    {Undefined} \cup {Some([displayName |-> Undefined, tags |-> l]) : l \in OptionalTagLists}

\* The options a caller passes to run(): none, no tags, or a tag filter.
FilterRunOptions ==
    {Undefined} \cup {Some([tags |-> l, reporter |-> Undefined]) : l \in OptionalTagLists}

InitFilter ==
    /\ \E md \in FilterClassMetadata, l \in OptionalTagLists, isATest \in {Undefined, Some(TRUE)} :
          registry = [c \in {"F"} |->
                        [testList |-> Some(<<TestMethod("f1", [NoOptions EXCEPT
                                                                 !.isATest = isATest,
                                                                 !.tags = l]),
                                             TestMethod("f2", [NoOptions EXCEPT
                                                                 !.isATest = Some(TRUE),
                                                                 !.order = Some(1)])>>),
                         annotations |-> [a \in Annotations |-> << >>],
                         classMetadata |-> md]]
    /\ isClient = FALSE
    /\ testClasses = <<[class |-> "F", instance |-> 1]>>
    /\ NewRunner
    /\ Decorated

\* run(opts) as far as the resolved list of the class.
ResolveTests(opts) ==
    /\ pc = "idle"
    /\ options' = OrElse(opts, NoRunOptions)
    /\ EnterClass(1, EmptyMap)
    /\ UNCHANGED <<registryVars, isClient, testClasses, results, failedTests,
                   passedTests, skippedTests, runs, bodyLog, hookRounds, lastHook,
                   reporterLog, running>>

NextFilter == \E opts \in FilterRunOptions : ResolveTests(opts)

SpecFilter == InitFilter /\ [][NextFilter]_vars

----
(* C10: without a tag filter every descriptor with isATest=true is         *)
(* retained; with a filter a descriptor is retained if and only if it has  *)
(* isATest=true and the filter tags intersect the union of the class's     *)
(* tags and the method's tags.                                             *)
FilterTagSet == Range(OrElse(options.tags, << >>))

ClassTagSet(c) ==
    IF IsDefined(registry[c].classMetadata)
    THEN Range(OrElse(registry[c].classMetadata[1].tags, << >>))
    ELSE {}

MethodTagSet(t) == Range(OrElse(t.options.tags, << >>))

C10_TagFilter ==
    pc = "beforeAll" =>
       LET c == CurrentClass
           list == registry[c].testList[1]
       IN  /\ Len(testList) = Cardinality(Range(testList))
           /\ \A i \in 1..Len(list) :
                 (list[i] \in Range(testList)) <=>
                    /\ list[i].options.isATest = Some(TRUE)
                    /\ \/ FilterTagSet = {}
                       \/ FilterTagSet \cap (ClassTagSet(c) \cup MethodTagSet(list[i])) # {}

C10_Witness ==
    /\ pc = "beforeAll"
    /\ options.tags = Some(<<"A">>)
    /\ registry["F"].classMetadata = Some([displayName |-> Undefined, tags |-> Some(<<"A">>)])
    /\ \E i \in 1..Len(testList) :
          testList[i].name = "f1" /\ testList[i].options.tags = Some(<<"B">>)
    /\ Len(testList) = 2

----
(* The runner on one class O with three tests whose orders are drawn: left *)
(* unset, 1 or 1000.  No test has a timeout, so no body is abandoned.      *)

OrderChoices == {Undefined, Some(1), Some(1000)}

InitOrder ==
    /\ \E r1 \in OrderChoices, r2 \in OrderChoices, r3 \in OrderChoices,
          d \in {Undefined, Some(Disabled(Undefined))} :
          registry = [c \in {"O"} |->
                        [testList |-> Some(<<TestMethod("o1", [NoOptions EXCEPT
                                                                 !.isATest = Some(TRUE),
                                                                 !.order = r1]),
                                             TestMethod("o2", [NoOptions EXCEPT
                                                                 !.isATest = Some(TRUE),
                                                                 !.order = r2]),
                                             TestMethod("o3", [NoOptions EXCEPT
                                                                 !.isATest = Some(TRUE),
                                                                 !.order = r3,
                                                                 !.disabled = d])>>),
                         annotations |-> [a \in Annotations |-> << >>],
                         classMetadata |-> Undefined]]
    /\ isClient = FALSE
    /\ testClasses = <<[class |-> "O", instance |-> 1]>>
    /\ NewRunner
    /\ Decorated

NextOrder ==
    \/ Run(Undefined)
    \/ BeforeAll
    \/ BeforeEach
    \/ SkipTest
    \/ CallBody
    \/ ExecuteTest
    \/ AfterEach
    \/ AfterAll

SpecOrder == InitOrder /\ [][NextOrder]_vars

\* The position of a method among the descriptors of its class, in the
\* order the decorators added them.
DiscoveryIndex(c, name) ==
    CHOOSE i \in 1..Len(registry[c].testList[1]) : registry[c].testList[1][i].name = name

----
(* C11: the bodies of the tests of a class are called in ascending order   *)
(* of effective order, an unset order counting as 999, and tests of equal  *)
(* effective order are called in the order they were discovered.           *)
C11_AscendingAndStable ==
    \A i, j \in 1..Len(bodyLog) :
       (i < j /\ bodyLog[i].class = bodyLog[j].class) =>
          LET a == TestOf(bodyLog[i].class, bodyLog[i].name)
              b == TestOf(bodyLog[j].class, bodyLog[j].name)
          IN  /\ OrElse(a.options.order, 999) <= OrElse(b.options.order, 999)
              /\ OrElse(a.options.order, 999) = OrElse(b.options.order, 999) =>
                    DiscoveryIndex(bodyLog[i].class, a.name)
                       < DiscoveryIndex(bodyLog[j].class, b.name)

----
(* utils/metadata.ts, addTest: the decorators applied to the methods a and *)
(* b of a class M.  A descriptor holds the option table it was created     *)
(* with, not a copy; Test and Negated hand the same table to every method  *)
(* they are applied to, Order(n) builds a new table each time.             *)

TestObject == 1

NegatedObject == 2

\* The option tables of the decorators that are constants.
SharedDecorators ==
    [o \in {TestObject, NegatedObject} |->
       IF o = TestObject THEN [NoOptions EXCEPT !.isATest = Some(TRUE)]
       ELSE [NoOptions EXCEPT !.negated = Some(TRUE)]]

\* The option tables Order(1) and Order(2) build.
ParameterisedDecorators == {[NoOptions EXCEPT !.order = Some(n)] : n \in {1, 2}}

\* The names of the descriptors of a class, in the order they were added.
TestNames(c) ==
    IF IsDefined(registry[c].testList)
    THEN [i \in 1..Len(registry[c].testList[1]) |-> registry[c].testList[1][i].name]
    ELSE << >>

\* addTest with the merge of an older revision: every key of the new
\* options is assigned, a key already set included.
MergeOptionsLastWins(found, given) ==
    [f \in DOMAIN NoOptions |-> IF given[f] # Undefined THEN given[f] ELSE found[f]]

\* addTest, "create combined options": each key of the new options is
\* assigned when the options found do not have it.
MergeOptions(found, given) ==
    [f \in DOMAIN NoOptions |-> IF found[f] = Undefined THEN given[f] ELSE found[f]]

\* addTest(ctor, testName, options): given is the identity of the options
\* table among tables, the option tables at the time of the call.
AddTest(ctor, testName, given, tables) ==
    LET known == testName \in DOMAIN descriptorObject[ctor]
        found == descriptorObject[ctor][testName]
        merged == IF known
                  THEN [tables EXCEPT ![found] = MergeOptions(tables[found], tables[given])]
                  ELSE tables
        objects == IF known THEN descriptorObject
                   ELSE [descriptorObject EXCEPT ![ctor] = MapSet(@, testName, given)]
        names == [c \in DOMAIN registry |->
                    IF c = ctor /\ ~known THEN Append(TestNames(c), testName)
                    ELSE TestNames(c)]
    IN  /\ optionObjects' = merged
        /\ descriptorObject' = objects
        /\ registry' =
              [c \in DOMAIN registry |->
                 [registry[c] EXCEPT !.testList =
                    IF names[c] = << >> THEN Undefined
                    ELSE Some([i \in 1..Len(names[c]) |->
                                 TestMethod(names[c][i], merged[objects[c][names[c][i]]])])]]
        /\ addTestCalls' = Append(addTestCalls,
                                  [class |-> ctor, method |-> testName,
                                   object |-> given, given |-> tables[given]])

\* createDecorator(...)(ctor, propertyKey) for a method: one call of addTest.
ApplyDecorator(ctor, propertyKey) ==
    /\ Len(addTestCalls) < MaxCalls
    /\ \/ \E o \in DOMAIN SharedDecorators :
             AddTest(ctor, propertyKey, o, optionObjects)
       \/ \E t \in ParameterisedDecorators :
             LET new == Cardinality(DOMAIN optionObjects) + 1
             IN  AddTest(ctor, propertyKey, new, MapSet(optionObjects, new, t))
    /\ UNCHANGED <<isClient, testClasses, results, failedTests, passedTests,
                   skippedTests, options, pc, classIdx, testList, testIdx, runs,
                   bodyLog, hookRounds, lastHook, resolved, reporterLog, running,
                   calls>>

InitRegistry ==
    /\ registry = [c \in {"M"} |->
                     [testList |-> Undefined,
                      annotations |-> [a \in Annotations |-> << >>],
                      classMetadata |-> Undefined]]
    /\ optionObjects = SharedDecorators
    /\ descriptorObject = [c \in {"M"} |-> EmptyMap]
    /\ addTestCalls = << >>
    /\ calls = << >>
    /\ isClient = FALSE
    /\ testClasses = << >>
    /\ NewRunner

NextRegistry == \E m \in {"a", "b"} : ApplyDecorator("M", m)

SpecRegistry == InitRegistry /\ [][NextRegistry]_vars

\* The latest addTest call, seen from the step that makes it.
LatestCall == addTestCalls'[Len(addTestCalls')]

\* A step that is an addTest call leaves in each field of the descriptor
\* the value the field had, if it had one, and else the value of the call.
AddTestMerges ==
    Len(addTestCalls') = Len(addTestCalls) + 1 =>
       LET c == LatestCall.class
           m == LatestCall.method
           known == m \in Range(TestNames(c))
           after == (CHOOSE t \in Range(registry'[c].testList[1]) : t.name = m).options
       IN  \A f \in DOMAIN NoOptions :
              after[f] = IF known /\ TestOf(c, m).options[f] # Undefined
                         THEN TestOf(c, m).options[f]
                         ELSE LatestCall.given[f]

----
----
(* Runs with a reporter, of a class R with three tests: r1, r2 that may be *)
(* negated, and r3 that is disabled.  The reporter is the caller's code:   *)
(* each of its callbacks may raise.                                        *)

ReporterChoices ==
    {Reporter(r) : r \in {{}, {"onRunStart"}, {"onRunEnd"}, {"onTestPassed"},
                          {"onTestEnd"}}}

ReporterRunOptions ==
    {Some([tags |-> Undefined, reporter |-> Some(r)]) : r \in ReporterChoices}

InitReporter ==
    /\ \E n \in {Undefined, Some(TRUE)} :
          registry = [c \in {"R"} |->
                        [testList |-> Some(<<TestMethod("r1", [NoOptions EXCEPT
                                                                 !.isATest = Some(TRUE),
                                                                 !.order = Some(1)]),
                                             TestMethod("r2", [NoOptions EXCEPT
                                                                 !.isATest = Some(TRUE),
                                                                 !.order = Some(2),
                                                                 !.negated = n]),
                                             TestMethod("r3", [NoOptions EXCEPT
                                                                 !.isATest = Some(TRUE),
                                                                 !.order = Some(3),
                                                                 !.disabled =
                                                                    Some(Disabled(Undefined))])>>),
                         annotations |-> [a \in Annotations |-> << >>],
                         classMetadata |-> Undefined]]
    /\ isClient = FALSE
    /\ testClasses = <<[class |-> "R", instance |-> 1]>>
    /\ NewRunner
    /\ Decorated

NextReporter ==
    \/ \E opts \in ReporterRunOptions : Run(opts)
    \/ BeforeAll
    \/ BeforeEach
    \/ SkipTest
    \/ CallBody
    \/ ExecuteTest
    \/ AfterEach
    \/ AfterAll

SpecReporter == InitReporter /\ [][NextReporter]_vars

----
(* C13: recording the result of a test increments exactly one of the three *)
(* counters, once per test per run, and stores one result for the test:    *)
(* at every point of a run the counters add up to the number of stored     *)
(* results and each counter is the number of stored results of its         *)
(* category.                                                               *)
C13_CountedOncePerTest ==
    /\ passedTests + failedTests + skippedTests = Cardinality(Recorded)
    /\ passedTests = Cardinality({k \in Recorded : results[k[1]][k[2]].passed = TRUE})
    /\ skippedTests = Cardinality({k \in Recorded : results[k[1]][k[2]].skipped = TRUE})
    /\ failedTests = Cardinality({k \in Recorded : /\ results[k[1]][k[2]].passed = FALSE
                                                   /\ results[k[1]][k[2]].skipped = FALSE})

----
(* C14: every recorded result is in exactly one of the categories passed   *)
(* (passed, not skipped), failed (neither) and skipped (skipped, not       *)
(* passed); none is both passed and skipped, whatever the disabled,        *)
(* environment, timeout and negated options of its test.                   *)
C14_ExactlyOneCategory ==
    \A k \in Recorded :
       LET r == results[k[1]][k[2]]
       IN  /\ r.passed \in BOOLEAN
           /\ r.skipped \in BOOLEAN
           /\ Cardinality({c \in {"passed", "failed", "skipped"} :
                             CASE c = "passed" -> IsPass(r)
                               [] c = "failed" -> IsFail(r)
                               [] OTHER        -> IsSkip(r)}) = 1
           /\ ~(r.passed = TRUE /\ r.skipped = TRUE)

\* A negated test that is skipped, disabled or off its environment, is
\* recorded as skipped.
C14_Witness ==
    /\ \E k \in Recorded :
          /\ IsNegated(TestOf(k[1], k[2]))
          /\ IsDisabled(TestOf(k[1], k[2]))
          /\ IsSkip(results[k[1]][k[2]])
    /\ \E k \in Recorded : IsPass(results[k[1]][k[2]])

----
(* The notifications of a finished run *)

\* The tests of the resolved lists of the run.
ResolvedTests == UNION {{<<c, j>> : j \in 1..Len(resolved[c])} : c \in DOMAIN resolved}

\* The category a reporter callback stands for.
OutcomeOf(r) ==
    IF IsPass(r) THEN "onTestPassed" ELSE IF IsSkip(r) THEN "onTestSkipped" ELSE "onTestFailed"

\* The log of reporter calls is onRunStart, then for each test a group of
\* calls on one test name, then onRunEnd; a group is onTestStart (if
\* withStart), the callback of the outcome, onTestEnd with the result.
NotificationsInOrder(withStart) ==
    LET w == IF withStart THEN 3 ELSE 2
        n == Cardinality(ResolvedTests)
    IN  /\ Len(reporterLog) = w * n + 2
        /\ reporterLog[1].callback = "onRunStart"
        /\ reporterLog[Len(reporterLog)].callback = "onRunEnd"
        /\ \A k \in 1..n :
              LET last == 1 + w * k
                  end == reporterLog[last]
                  outcome == reporterLog[last - 1]
              IN  /\ end.callback = "onTestEnd"
                  /\ outcome.callback = OutcomeOf(end.result[1])
                  /\ outcome.testName = end.testName
                  /\ withStart =>
                        /\ reporterLog[last - 2].callback = "onTestStart"
                        /\ reporterLog[last - 2].testName = end.testName

\* The same without onTestStart in the groups.
NotificationsInOrderButStart ==
    (pc = "done" /\ IsDefined(options.reporter)) => NotificationsInOrder(FALSE)

----
(* C15: with a reporter supplied, the notifications of a finished run are  *)
(* onRunStart once first, then for each test of each resolved list         *)
(* onTestStart(name), one of onTestPassed / onTestFailed / onTestSkipped,  *)
(* onTestEnd(name, result), and onRunEnd once last.                        *)
C15_OrderedNotifications ==
    (pc = "done" /\ IsDefined(options.reporter)) => NotificationsInOrder(TRUE)

----
\* The names of the tests class c has a result for.
ResultNames(c) == IF c \in DOMAIN results THEN DOMAIN results[c] ELSE {}

\* The body of log entry e threw before any timeout of its test.
Threw(e) == e.beh.kind = "throw" /\ ~TimedOut(e)

(* C16: no error of a test body, timeout or error of a hook aborts a run:  *)
(* the run is never left with an error, and when it is complete every      *)
(* collected class has been through its batch and the result map holds     *)
(* one result for every test of every resolved list and no other.          *)
C16_RunIsNeverAborted ==
    /\ pc \notin {"aborted", "rejected"}
    /\ pc = "done" =>
          /\ DOMAIN resolved = {testClasses[i].class : i \in 1..Len(testClasses)}
          /\ \A c \in DOMAIN resolved :
                ResultNames(c) = {resolved[c][j].name : j \in 1..Len(resolved[c])}
          /\ Cardinality(Recorded) = Cardinality(ResolvedTests)

\* A complete run in which a body threw and another outlived its timeout.
C16_Witness ==
    /\ pc = "done"
    /\ \E i \in 1..Len(bodyLog) : TimedOut(bodyLog[i])
    /\ \E i \in 1..Len(bodyLog) : Threw(bodyLog[i])
    /\ Cardinality(Recorded) = 3

----
\* The body of log entry e is still in progress.
StillRunning(e) ==
    \E b \in running : b.class = e.class /\ b.instance = e.instance
                         /\ b.name = e.name /\ b.run = runs

\* A step in which a body that outlived its timeout returns or throws:
\* a body leaves the set of bodies in progress and no result is awaited.
LateSettlementStep ==
    /\ running' # running
    /\ running' \subseteq running
    /\ bodyLog' = bodyLog

LateSettlementIsDiscarded ==
    LateSettlementStep =>
       /\ results' = results
       /\ passedTests' = passedTests
       /\ failedTests' = failedTests
       /\ skippedTests' = skippedTests
       /\ reporterLog' = reporterLog

(* C17: a timed-out test is recorded once: when the abandoned body later   *)
(* returns or throws, the stored result of its test, the results of all    *)
(* other tests and the three counters stay as they are.                    *)
C17_TimedOutRecordedOnce == [][LateSettlementIsDiscarded]_vars

\* The body of a timed-out test of this run has settled since, and the
\* result of the test is the one recorded at the timeout.
C17_Witness ==
    \E i \in 1..Len(bodyLog) :
       LET e == bodyLog[i]
           t == TestOf(e.class, e.name)
       IN  /\ TimedOut(e)
           /\ ~StillRunning(e)
           /\ ~IsNegated(t)
           /\ LoggedResult(e).errorMessage = Some(TimeoutMessage(t.options.timeout[1]))
           /\ failedTests = 1

----
\* The bodies in progress on the instance of body b.
OnSameInstance(b) == {x \in running : x.class = b.class /\ x.instance = b.instance}

(* C18: execution is serialized: at no point are two test bodies in        *)
(* progress on the same class instance, and a test body has settled        *)
(* before the next step of the scheduler (a hook round, the next test,     *)
(* the next class, the end of the run) starts.                             *)
C18_Serialized ==
    /\ \A b \in running : OnSameInstance(b) = {b}
    /\ pc # "body" => running = {}

(* C18 as amended: a body without timeout, or that settles before its      *)
(* timeout elapses, has settled before the next step of the scheduler      *)
(* starts, and the scheduler waits for one body at a time; a body that     *)
(* outlived its timeout is not cancelled and may be in progress on the     *)
(* instance during the hooks and the bodies of later tests.                *)
C18_SerializedButAbandoned ==
    /\ \A b \in running : TimedOut(b) \/ (pc = "body" /\ b = CurrentBody)
    /\ \A b \in running : Cardinality({x \in OnSameInstance(b) : ~TimedOut(x)}) <= 1
    /\ pc # "body" => \A b \in running : TimedOut(b)

\* The body of a test is awaited while the abandoned body of a test that
\* timed out earlier is in progress on the same instance.
C18_Witness ==
    /\ pc = "body"
    /\ ~TimedOut(CurrentBody)
    /\ \E b \in OnSameInstance(CurrentBody) : b # CurrentBody /\ TimedOut(b)

----
\* The part of C19 that does not concern the message: an off-environment
\* test is skipped without its body being called, the others are executed.
OffEnvironmentIsSkipped ==
    \A c \in DOMAIN resolved :
       \A j \in 1..Len(resolved[c]) :
          LET t == resolved[c][j]
          IN  (~IsDisabled(t) /\ HasResult(c, t.name)) =>
                 IF IsOffEnvironment(t)
                 THEN BodyCalls(c, t.name) = 0 /\ IsSkip(results[c][t.name])
                 ELSE BodyCalls(c, t.name) = 1 /\ ~IsSkip(results[c][t.name])

(* C19: a test that is not disabled and whose environment restriction does *)
(* not match the execution context never has its body called and is       *)
(* recorded as skipped with the message "Test needs to run on              *)
(* <environment> environment"; a test whose restriction matches, or that   *)
(* has none, is executed.                                                  *)
C19_OffEnvironmentSkipMessage ==
    /\ OffEnvironmentIsSkipped
    /\ \A c \in DOMAIN resolved :
          \A j \in 1..Len(resolved[c]) :
             LET t == resolved[c][j]
             IN  (~IsDisabled(t) /\ IsOffEnvironment(t)) =>
                    /\ BodyCalls(c, t.name) = 0
                    /\ HasResult(c, t.name) =>
                          results[c][t.name].errorMessage =
                             Some(EnvironmentMessage(t.options.environment[1]))

----
(* Runners constructed on up to MaxRoots roots of the instance tree, a     *)
(* folder and its child folder, or the same folder twice, included.        *)

RootLists == UNION {[1..n -> Roots] : n \in 1..MaxRoots}

InitRoots ==
    /\ \E o1 \in {o \in OptionChoices("m1") : /\ o.disabled = Undefined
                                              /\ o.environment = Undefined
                                              /\ o.negated = Undefined},
          o2 \in OptionChoices("m2"), o3 \in OptionChoices("m3"),
          o4 \in OptionChoices("m4") :
          registry = [c \in Range(Classes) |->
                        ClassRegistry(c, [m \in {"m1", "m2", "m3", "m4"} |->
                                            CASE m = "m1" -> o1 [] m = "m2" -> o2
                                              [] m = "m3" -> o3 [] OTHER -> o4])]
    /\ isClient = FALSE
    /\ \E roots \in RootLists : testClasses = Constructor(roots)
    /\ NewRunner
    /\ Decorated

SpecRoots == InitRoots /\ [][Next]_vars

----
(* C20: each discovered class is instantiated once per runner, also when   *)
(* it is reachable from more than one of the roots: the collected list     *)
(* holds at most one (class, instance) pair per class.                     *)
C20_OneInstancePerClass ==
    \A i, j \in 1..Len(testClasses) :
       testClasses[i].class = testClasses[j].class => i = j

----
\* The instance constructed for class c when the runner was constructed.
InstanceOf(c) ==
    testClasses[CHOOSE i \in 1..Len(testClasses) : testClasses[i].class = c].instance

(* C21: every hook callback and every test body of a class receives the    *)
(* one instance constructed for the class when the runner was constructed, *)
(* in every run; no run constructs an instance, so the collected list is   *)
(* the one of the constructor throughout.                                  *)
C21_OneInstanceForAllCalls ==
    /\ testClasses = Constructor(<<"shared">>)
    /\ \A b \in running : b.instance = InstanceOf(b.class)
    /\ \A i \in 1..Len(bodyLog) : bodyLog[i].instance = InstanceOf(bodyLog[i].class)
    /\ lastHook # NoHook => lastHook.instance = InstanceOf(lastHook.class)

\* The second run has called a body and a round of hooks of the second class.
C21_Witness ==
    /\ runs = 2
    /\ lastHook.class = "K2"
    /\ lastHook.instance = 2
    /\ \E i \in 1..Len(bodyLog) : bodyLog[i].class = "K1" /\ bodyLog[i].instance = 1
    /\ \E i \in 1..Len(bodyLog) : bodyLog[i].class = "K2" /\ bodyLog[i].instance = 2

----
(* utils/decorator-utils.ts and utils/metadata.ts: decorators applied to a *)
(* class M, to its lifecycle methods h1 and h2 and to its method a, or to  *)
(* a target that is undefined.                                             *)

NoClassMetadata == [displayName |-> Undefined, tags |-> Undefined]

\* addClassMetadata of an older revision: the options of the call become
\* the class metadata.
AddClassMetadataReplaces(found, given) == Some(given)

\* addClassMetadata: every key of the options of the call is set in the
\* class metadata, which is created empty when the class has none.
AddClassMetadata(found, given) ==
    Some([f \in DOMAIN NoClassMetadata |->
            IF given[f] # Undefined THEN given[f] ELSE OrElse(found, NoClassMetadata)[f]])

\* addAnnotations that sets the list of the kind to the new callback.
AddAnnotationsReplaces(found, callback) == <<callback>>

\* addAnnotations: the callback is pushed on the list of its kind, found,
\* which is empty when the class has none of the kind.
AddAnnotations(found, callback) == Append(found, callback)

\* A decorator: createDecorator({ annotation, options }).
Decorator(name, annotation, given) ==
    [name |-> name, annotation |-> annotation, options |-> given]

\* DisplayName("A"), DisplayName("B"), Tag("X") on a class.
ClassDecorators ==
    {Decorator("DisplayName", Undefined, [NoClassMetadata EXCEPT !.displayName = Some(n)]) :
        n \in {"A", "B"}}
      \cup {Decorator("Tag", Undefined, [NoClassMetadata EXCEPT !.tags = Some(<<"X">>)])}

\* BeforeEach, AfterAll on a method.
AnnotationDecorators ==
    {Decorator(a, Some(a), NoClassMetadata) : a \in {"BeforeEach", "AfterAll"}}

TargetError == "Target cannot be null"

\* A decorator that returns without a word when it has nothing to work on.
CreateDecoratorSilent(decorator, ctor, propertyKey) ==
    /\ Len(calls) < MaxApplications
    /\ calls' = Append(calls, [decorator |-> decorator, target |-> ctor,
                               propertyKey |-> propertyKey, raised |-> Undefined])
    /\ UNCHANGED <<registry, optionObjects, descriptorObject, addTestCalls,
                   isClient, testClasses, results, failedTests, passedTests,
                   skippedTests, options, pc, classIdx, testList, testIdx, runs,
                   bodyLog, hookRounds, lastHook, resolved, reporterLog, running>>

\* The function createDecorator returns, applied to (ctor, propertyKey).
CreateDecorator(decorator, ctor, propertyKey) ==
    /\ Len(calls) < MaxApplications
    /\ calls' = Append(calls, [decorator |-> decorator, target |-> ctor,
                               propertyKey |-> propertyKey,
                               raised |-> IF ctor = Undefined THEN Some(TargetError)
                                          ELSE Undefined])
    /\ IF ctor = Undefined
       THEN UNCHANGED <<registry, optionObjects, descriptorObject, addTestCalls>>
       ELSE IF decorator.annotation # Undefined
            THEN /\ registry' = [registry EXCEPT
                                   ![ctor[1]].annotations[decorator.annotation[1]] =
                                       AddAnnotations(@, propertyKey[1])]
                 /\ UNCHANGED <<optionObjects, descriptorObject, addTestCalls>>
            ELSE IF propertyKey # Undefined
                 THEN AddTest(ctor[1], propertyKey[1], TestObject, optionObjects)
                 ELSE /\ registry' = [registry EXCEPT
                                        ![ctor[1]].classMetadata =
                                            AddClassMetadata(@, decorator.options)]
                      /\ UNCHANGED <<optionObjects, descriptorObject, addTestCalls>>
    /\ UNCHANGED <<isClient, testClasses, results, failedTests, passedTests,
                   skippedTests, options, pc, classIdx, testList, testIdx, runs,
                   bodyLog, hookRounds, lastHook, resolved, reporterLog, running>>

NextClass ==
    \E ctor \in {Undefined, Some("M")} :
       \/ \E d \in ClassDecorators : CreateDecorator(d, ctor, Undefined)
       \/ \E d \in AnnotationDecorators, h \in {"h1", "h2"} :
             CreateDecorator(d, ctor, Some(h))
       \/ CreateDecorator(Decorator("Test", Undefined, NoClassMetadata), ctor, Some("a"))

SpecClass == InitRegistry /\ [][NextClass]_vars

\* The latest decorator application, seen from the step that makes it.
LatestApplication == calls'[Len(calls')]

\* The class metadata of M, with no field set when M has none.
ClassMetadataIn(reg) == OrElse(reg["M"].classMetadata, NoClassMetadata)

\* An application of a decorator to the class M leaves every field of the
\* class metadata that its options do not set as it was, and sets the others.
ClassMetadataMerges ==
    (/\ Len(calls') = Len(calls) + 1
     /\ LatestApplication.target = Some("M")
     /\ LatestApplication.propertyKey = Undefined) =>
       \A f \in DOMAIN NoClassMetadata :
          ClassMetadataIn(registry')[f] =
             IF LatestApplication.decorator.options[f] # Undefined
             THEN LatestApplication.decorator.options[f]
             ELSE ClassMetadataIn(registry)[f]

----
(* C22: class-level annotations merge: each application keeps every field  *)
(* of the class metadata that it does not set itself, so a field set by an *)
(* earlier application and not by a later one is still there (a later      *)
(* DisplayName keeps earlier tags, a later Tag keeps the display name).    *)
C22_ClassMetadataMerges == [][ClassMetadataMerges]_vars

\* Tag was applied after DisplayName, or the reverse, and both are there.
C22_Witness ==
    /\ Len(calls) >= 2
    /\ calls[1].decorator.name = "DisplayName"
    /\ calls[1].target = Some("M")
    /\ calls[2].decorator.name = "Tag"
    /\ calls[2].target = Some("M")
    /\ ClassMetadataIn(registry).displayName = calls[1].decorator.options.displayName
    /\ ClassMetadataIn(registry).tags = Some(<<"X">>)

----
\* The applications so far that registered a callback of kind a on M.
RegistrationsOf(a) ==
    SelectSeq(calls, LAMBDA k : k.target = Some("M") /\ k.decorator.annotation = Some(a))

\* The callbacks registered under kind a on M, in registration order.
Registered(a) == [i \in 1..Len(RegistrationsOf(a)) |-> RegistrationsOf(a)[i].propertyKey[1]]

(* C23: all callbacks registered under one lifecycle kind on a class are   *)
(* retained, none dropped or replaced by a later registration, and a round *)
(* of that kind invokes them all in registration order, whichever of them  *)
(* throw.                                                                  *)
C23_CallbacksKeptInOrder ==
    \A a \in Annotations :
       /\ GetAnnotation("M", a) = Registered(a)
       /\ \A thrown \in SUBSET (1..Len(GetAnnotation("M", a))) :
             RunAnnotatedMethods(GetAnnotation("M", a), thrown).invoked = Registered(a)

\* h2 was registered before h1 under BeforeEach, and h2 once more.
C23_Witness ==
    /\ Registered("BeforeEach") = <<"h2", "h1", "h2">>
    /\ GetAnnotation("M", "BeforeEach") = <<"h2", "h1", "h2">>

----
\* An application to an undefined target raises and changes nothing.
UndefinedTargetRaises ==
    (Len(calls') = Len(calls) + 1 /\ LatestApplication.target = Undefined) =>
       /\ LatestApplication.raised = Some(TargetError)
       /\ registry' = registry
       /\ optionObjects' = optionObjects
       /\ descriptorObject' = descriptorObject

(* C24: applying an annotation to an undefined target raises at once and   *)
(* leaves the registry as it was: no descriptor, lifecycle entry or class  *)
(* metadata is created or changed by the failed application.               *)
C24_UndefinedTargetRaises == [][UndefinedTargetRaises]_vars

\* A class with metadata and a lifecycle callback, then an application to
\* an undefined target.
C24_Witness ==
    /\ Len(calls) = 3
    /\ calls[3].target = Undefined
    /\ calls[3].raised = Some(TargetError)
    /\ registry["M"].classMetadata # Undefined
    /\ GetAnnotation("M", "AfterAll") = <<"h1">>

----
\* The result a run without reporter records for log entry e.
ResultWithoutReporter(e) ==
    LET t == TestOf(e.class, e.name)
    IN  NewResult([class |-> e.class, instance |-> e.instance], t,
                  HandleTestResult(t, e.beh))

(* C25: the reporter is a passive observer: the results and the counters   *)
(* of a run are those of the same run without reporter, whatever the       *)
(* reporter does; a reporter callback that raises does not turn a passing  *)
(* test into a failed one and does not make a test count twice.            *)
C25_ReporterIsPassive ==
    /\ \A i \in 1..Len(bodyLog) : LoggedResult(bodyLog[i]) = ResultWithoutReporter(bodyLog[i])
    /\ passedTests <= Cardinality({k \in Recorded : IsPass(results[k[1]][k[2]])})
    /\ failedTests <= Cardinality({k \in Recorded : IsFail(results[k[1]][k[2]])})
    /\ skippedTests <= Cardinality({k \in Recorded : IsSkip(results[k[1]][k[2]])})

----
(* The report run() prints when it ends *)

\* generateOutput, the "Failures:" section: the (class, test) pairs it has
\* an entry for.  The section is written when failedTests > 0 and skips
\* the results that passed or have no error message.
FailuresSection ==
    IF failedTests > 0
    THEN {k \in Recorded : ~(\/ results[k[1]][k[2]].passed = TRUE
                              \/ results[k[1]][k[2]].errorMessage = Undefined)}
    ELSE {}

(* C26: the Failures section of the report of a finished run has one entry *)
(* for every test whose recorded result is failed and none for a test      *)
(* whose recorded result is passed or skipped.                             *)
C26_FailuresAreTheFailed ==
    pc = "done" => FailuresSection = {k \in Recorded : IsFail(results[k[1]][k[2]])}

\* The part of C26 that holds: every failed test has an entry and no
\* passed test has one.
FailuresHoldTheFailed ==
    pc = "done" =>
       /\ {k \in Recorded : IsFail(results[k[1]][k[2]])} \subseteq FailuresSection
       /\ \A k \in FailuresSection : ~IsPass(results[k[1]][k[2]])

----
(* The construction of a runner on classes whose constructor or setUp may  *)
(* throw: new TestRunner(roots) of src/test-runner.ts, which calls setUp   *)
(* on the new instance when the instance has one.                          *)

ConstructionChoices == {"ok", "constructor throws", "setUp throws"}

\* A constructor that drops a class it cannot construct and goes on.
NewInstanceDropsFailures(ctor, how) ==
    [constructed |-> how[ctor] = "ok", raised |-> Undefined]

\* new ctor() and newClass.setUp(newClass): neither call is guarded.
NewInstance(ctor, how) ==
    [constructed |-> how[ctor] = "ok",
     raised |-> CASE how[ctor] = "constructor throws" -> Some(ctor \o ": constructor error")
                  [] how[ctor] = "setUp throws"       -> Some(ctor \o ": setUp error")
                  [] OTHER                            -> Undefined]

\* The loop of the constructor over the modules: the pairs collected and
\* the error that ended the loop, if one did.
RECURSIVE CollectOrRaise(_, _, _)
CollectOrRaise(list, modules, how) ==
    IF modules = << >> THEN [testClasses |-> list, raised |-> Undefined]
    ELSE LET ctor == Require(Head(modules))
         IN  IF ctor = Undefined THEN CollectOrRaise(list, Tail(modules), how)
             ELSE LET new == NewInstance(ctor[1], how)
                  IN  IF new.raised # Undefined
                      THEN [testClasses |-> list, raised |-> new.raised]
                      ELSE CollectOrRaise(IF new.constructed THEN AddClass(list, ctor)
                                          ELSE list,
                                          Tail(modules), how)

\* No runner: the constructor raised and the caller holds no object.
NoRunner ==
    /\ testClasses = << >>
    /\ results = EmptyMap
    /\ failedTests = 0
    /\ passedTests = 0
    /\ skippedTests = 0
    /\ options = NoRunOptions
    /\ pc = "failed"
    /\ classIdx = 0
    /\ testList = << >>
    /\ testIdx = 0
    /\ runs = 0
    /\ bodyLog = << >>
    /\ hookRounds = NoRounds
    /\ lastHook = NoHook
    /\ resolved = EmptyMap
    /\ reporterLog = << >>
    /\ running = {}

InitCollect ==
    /\ \E o1 \in {o \in OptionChoices("m1") : /\ o.disabled = Undefined
                                              /\ o.environment = Undefined
                                              /\ o.negated = Undefined},
          o2 \in OptionChoices("m2"), o3 \in OptionChoices("m3"),
          o4 \in OptionChoices("m4") :
          registry = [c \in Range(Classes) |->
                        ClassRegistry(c, [m \in {"m1", "m2", "m3", "m4"} |->
                                            CASE m = "m1" -> o1 [] m = "m2" -> o2
                                              [] m = "m3" -> o3 [] OTHER -> o4])]
    /\ isClient = FALSE
    /\ optionObjects = EmptyMap
    /\ descriptorObject = EmptyMap
    /\ addTestCalls = << >>
    /\ \E how \in [Range(Classes) -> ConstructionChoices] :
          LET new == CollectOrRaise(<< >>, GetDescendantsOfType("shared"), how)
          IN  /\ calls = <<[roots |-> <<"shared">>, how |-> how, raised |-> new.raised]>>
              /\ IF new.raised = Undefined
                 THEN testClasses = new.testClasses /\ NewRunner
                 ELSE NoRunner

SpecCollect == InitCollect /\ [][Next]_vars

\* The classes the modules under the roots export.
Discovered ==
    {Require(m)[1] : m \in {x \in Range(GetDescendantsOfType("shared")) : Require(x) # Undefined}}

----
(* C27: if the constructor of a discovered class, or its setUp method,     *)
(* throws during collection, the error leaves the constructor of the       *)
(* runner: no runner comes into being, the class is not dropped without a  *)
(* word and the error is not swallowed.                                    *)
C27_CollectionErrorPropagates ==
    IF \E c \in Discovered : calls[1].how[c] # "ok"
    THEN calls[1].raised # Undefined /\ pc = "failed" /\ runs = 0
    ELSE /\ calls[1].raised = Undefined
         /\ {testClasses[i].class : i \in 1..Len(testClasses)} = Discovered

\* The second class is the one whose setUp throws.
C27_Witness ==
    /\ calls[1].how["K1"] = "ok"
    /\ calls[1].how["K2"] = "setUp throws"
    /\ calls[1].raised = Some("K2: setUp error")
    /\ pc = "failed"

----
\* The methods of class c whose descriptor has isATest = true.
TestsOf(c) ==
    IF HasTestList(c)
    THEN {t.name : t \in {x \in Range(registry[c].testList[1]) :
                             x.options.isATest = Some(TRUE)}}
    ELSE {}

\* The names of the bodies of class c that were called.
CalledOf(c) ==
    {bodyLog[i].name : i \in {j \in 1..Len(bodyLog) : bodyLog[j].class = c}}
       \cup {b.name : b \in {x \in running : x.class = c}}

(* C28: only methods whose descriptor has isATest = true are executed or   *)
(* given a result: a method with a descriptor that has other options but   *)
(* not isATest is in no resolved list, has no body call and no result, and *)
(* the counters count no more than the tests.                              *)
C28_OnlyTestsRun ==
    /\ \A c \in DOMAIN registry :
          /\ c \in DOMAIN resolved =>
                {resolved[c][j].name : j \in 1..Len(resolved[c])} \subseteq TestsOf(c)
          /\ ResultNames(c) \subseteq TestsOf(c)
          /\ CalledOf(c) \subseteq TestsOf(c)
    /\ passedTests + failedTests + skippedTests
          <= Cardinality(UNION {{<<c, n>> : n \in TestsOf(c)} : c \in DOMAIN registry})

\* A finished run: m3, which has a display name and the lowest order but
\* is not a test, has no result; the tests of its class have one.
C28_Witness ==
    /\ pc = "done"
    /\ TestOf("K1", "m3").options.order = Some(0)
    /\ ~HasResult("K1", "m3")
    /\ HasResult("K1", "m1")
    /\ HasResult("K1", "m2")

----
\* The bodies of class c called in the current run.
BodiesCalledOf(c) == {i \in 1..Len(bodyLog) : bodyLog[i].class = c}

\* The class batch of c is in progress at one of its tests.
InBatchOf(c) ==
    /\ pc \in {"beforeEach", "test", "body", "afterEach", "afterAll"}
    /\ CurrentClass = c

(* C29: per class and per run the BeforeAll round runs once, before the   *)
(* first BeforeEach round and the first body of the class, and the         *)
(* AfterAll round runs once, when every test of the resolved list of the   *)
(* class has had its BeforeEach round and every called body its AfterEach  *)
(* round; a finished run has run both rounds once for every class.         *)
C29_ClassRoundsOncePerRun ==
    \A c \in DOMAIN hookRounds :
       /\ hookRounds[c]["BeforeAll"] <= 1
       /\ hookRounds[c]["AfterAll"] <= 1
       /\ (InBatchOf(c) \/ hookRounds[c]["BeforeEach"] > 0 \/ BodiesCalledOf(c) # {})
             => hookRounds[c]["BeforeAll"] = 1
       /\ (InBatchOf(c) /\ pc # "afterAll") => hookRounds[c]["AfterAll"] = 0
       /\ hookRounds[c]["AfterAll"] = 1 =>
             /\ c \in DOMAIN resolved
             /\ hookRounds[c]["BeforeEach"] = Len(resolved[c])
             /\ hookRounds[c]["AfterEach"] = Cardinality(BodiesCalledOf(c))
             /\ \A i \in 1..Len(resolved[c]) : HasResult(c, resolved[c][i].name)
       /\ pc = "done" =>
             hookRounds[c]["BeforeAll"] = 1 /\ hookRounds[c]["AfterAll"] = 1

\* The second run is over and a class with two called bodies had one
\* AfterAll round after its two AfterEach rounds.
C29_Witness ==
    /\ pc = "done"
    /\ runs = 2
    /\ \E c \in DOMAIN hookRounds :
          /\ hookRounds[c]["AfterEach"] = 2
          /\ hookRounds[c]["AfterAll"] = 1
          /\ hookRounds[c]["BeforeAll"] = 1

----
(* Termination of run(): the runner with test bodies that may never settle *)

\* handleTestResult calls a body that never settles.
CallHangingBody ==
    /\ pc = "test"
    /\ LET test == testList[testIdx]
       IN  /\ ~IsDisabled(test)
           /\ ~IsOffEnvironment(test)
           /\ running' = running \cup {Body([class |-> CurrentClass,
                                             instance |-> CurrentInstance],
                                            test.name, runs, Hangs)}
    /\ pc' = "body"
    /\ UNCHANGED <<registryVars, isClient, testClasses, results, failedTests,
                   passedTests, skippedTests, options, classIdx, testList, testIdx,
                   runs, bodyLog, hookRounds, lastHook, resolved, reporterLog>>

\* The classes K1 and K2 with or without a timeout and a Disabled on m1.
InitLive ==
    /\ \E o1 \in {o \in OptionChoices("m1") :
                      o.environment = Undefined /\ o.negated = Undefined},
          o2 \in {o \in OptionChoices("m2") : o.disabled = Undefined},
          o3 \in OptionChoices("m3"),
          o4 \in {o \in OptionChoices("m4") : o.negated = Undefined} :
          registry = [c \in Range(Classes) |->
                        ClassRegistry(c, [m \in {"m1", "m2", "m3", "m4"} |->
                                            CASE m = "m1" -> o1 [] m = "m2" -> o2
                                              [] m = "m3" -> o3 [] OTHER -> o4])]
    /\ isClient = FALSE
    /\ testClasses = Constructor(<<"shared">>)
    /\ NewRunner
    /\ Decorated

NextLive ==
    \/ \E opts \in RunOptions : Run(opts)
    \/ BeforeAll
    \/ BeforeEach
    \/ SkipTest
    \/ CallBody
    \/ CallHangingBody
    \/ ExecuteTest
    \/ AbandonedBodySettles
    \/ AfterEach
    \/ AfterAll

\* The steps of run() are taken when they can be: the thread of run() is
\* resumed after every await, a lifecycle callback returns, a body that
\* settles settles and the timer of a race fires. Nothing obliges the caller
\* to call run(), nor an abandoned body to settle.
RunnerProceeds ==
    /\ WF_vars(BeforeAll)
    /\ WF_vars(BeforeEach)
    /\ WF_vars(SkipTest)
    /\ WF_vars(CallBody \/ CallHangingBody)
    /\ WF_vars(ExecuteTest)
    /\ WF_vars(AfterEach)
    /\ WF_vars(AfterAll)

SpecLive == InitLive /\ [][NextLive]_vars /\ RunnerProceeds

\* run() has been called and has not returned.
InRun == pc \in {"beforeAll", "beforeEach", "test", "body", "afterEach", "afterAll"}

\* handleTestResult awaits a body that never settles and has no timeout.
Blocked ==
    /\ pc = "body"
    /\ CurrentBody.beh.kind = "never"
    /\ ~IsDefined(testList[testIdx].options.timeout)

\* The calls of onRunEnd the reporter of the run received.
RunEndCalls == {i \in 1..Len(reporterLog) : reporterLog[i].callback = "onRunEnd"}

\* run() has returned the result map: a result for every test of every
\* resolved list, and onRunEnd called once, as the last callback.
Returned ==
    /\ pc = "done"
    /\ \A c \in DOMAIN resolved :
          \A i \in 1..Len(resolved[c]) : HasResult(c, resolved[c][i].name)
    /\ IsDefined(options.reporter) => RunEndCalls = {Len(reporterLog)}

----
\* StringReporter.onTestEnd: the counters of a reporter that has received
\* the calls of log.
StringReporterCounts(log) ==
    LET ends == {i \in 1..Len(log) : log[i].callback = "onTestEnd"}
    IN  [passedTests |-> Cardinality({i \in ends : log[i].result[1].passed}),
         skippedTests |-> Cardinality({i \in ends : /\ ~log[i].result[1].passed
                                                    /\ log[i].result[1].skipped}),
         failedTests |-> Cardinality({i \in ends : /\ ~log[i].result[1].passed
                                                   /\ ~log[i].result[1].skipped})]

\* The tests of the resolved lists the reporter knows under the name n.
TestsNamed(n) ==
    {k \in ResolvedTests :
        OrElse(resolved[k[1]][k[2]].options.displayName, resolved[k[1]][k[2]].name) = n}

(* C31: each result handed to onTestEnd is the result stored in the result *)
(* map for the test of that name, the call before it is the outcome        *)
(* callback of that result for the same test, and a reporter that counts   *)
(* the results of onTestEnd has the three counters of the runner.          *)
C31_ReporterSeesStoredResults ==
    IsDefined(options.reporter) =>
       /\ \A i \in 1..Len(reporterLog) :
             reporterLog[i].callback = "onTestEnd" =>
                /\ \E k \in TestsNamed(reporterLog[i].testName) :
                      /\ HasResult(k[1], resolved[k[1]][k[2]].name)
                      /\ results[k[1]][resolved[k[1]][k[2]].name] = reporterLog[i].result[1]
                /\ i > 1
                /\ reporterLog[i - 1].callback = OutcomeOf(reporterLog[i].result[1])
                /\ reporterLog[i - 1].testName = reporterLog[i].testName
       /\ StringReporterCounts(reporterLog).passedTests = passedTests
       /\ StringReporterCounts(reporterLog).failedTests = failedTests
       /\ StringReporterCounts(reporterLog).skippedTests = skippedTests

\* A run with a reporter is over with a passed, a failed and a skipped test.
C31_Witness ==
    /\ pc = "done"
    /\ IsDefined(options.reporter)
    /\ passedTests > 0
    /\ failedTests > 0
    /\ skippedTests > 0
    /\ StringReporterCounts(reporterLog).skippedTests = skippedTests

----
\* The options of the descriptor of method m of class c after the step.
OptionsAfter(c, m) ==
    (CHOOSE t \in Range(registry'[c].testList[1]) : t.name = m).options

\* A step that is an addTest call leaves the options of the descriptors of
\* the other methods as they were.
OtherDescriptorsUnchanged ==
    Len(addTestCalls') = Len(addTestCalls) + 1 =>
       \A c \in DOMAIN registry :
          \A m \in Range(TestNames(c)) :
             <<c, m>> # <<LatestCall.class, LatestCall.method>> =>
                OptionsAfter(c, m) = TestOf(c, m).options

(* C32: annotating one method never changes the descriptor of another:     *)
(* every addTest call for (class, method) leaves the options of every      *)
(* other descriptor as they were, descriptors made by the same shared      *)
(* annotation (Test, Negated) included.                                    *)
C32_OtherDescriptorsUnchanged == [][OtherDescriptorsUnchanged]_vars

----
(* C33: at the end of every run the three counters add up to the number of *)
(* results stored in the result map, over all classes, and each counter is *)
(* the number of stored results of its category.                           *)
C33_CountersCountTheResults ==
    pc = "done" =>
       /\ passedTests + failedTests + skippedTests = Cardinality(Recorded)
       /\ CountersMatchResults

----
(* run(options) called several times on one runner, the arguments of the   *)
(* calls being recorded                                                    *)

RunObserved(opts) == RunWith(opts, Append(calls, opts))

NextOptions ==
    \/ \E opts \in RunOptions : RunObserved(opts)
    \/ BeforeAll
    \/ BeforeEach
    \/ SkipTest
    \/ CallBody
    \/ ExecuteTest
    \/ AbandonedBodySettles
    \/ AfterEach
    \/ AfterAll

SpecOptions == InitLive /\ [][NextOptions]_vars

\* The argument of the latest run() call.
LatestOptions == calls[Len(calls)]

\* The methods of class c that are tests.
AllTestsOf(c) == {t \in Range(registry[c].testList[1]) : t.options.isATest = Some(TRUE)}

(* C34: the options of a run are those of its own run() call: the tag      *)
(* filter and the reporter of an earlier call play no part in it, and a    *)
(* run() called without options resolves every test of every class, runs   *)
(* them all and calls no reporter.                                         *)
C34_OptionsArePerRun ==
    Len(calls) > 0 =>
       /\ options = OrElse(LatestOptions, NoRunOptions)
       /\ LatestOptions = Undefined =>
             /\ reporterLog = << >>
             /\ \A c \in DOMAIN resolved :
                   Range(resolved[c]) = AllTestsOf(c)
             /\ pc = "done" =>
                   \A c \in Range(Classes) :
                      \A t \in AllTestsOf(c) : HasResult(c, t.name)

\* A run with a tag filter was followed by a run without options, which is
\* over and has the result of a test that has no tag.
C34_Witness ==
    /\ Len(calls) = 2
    /\ calls[1] # Undefined
    /\ IsDefined(calls[1][1].tags)
    /\ calls[2] = Undefined
    /\ pc = "done"
    /\ HasResult("K2", "m4")

----
(* run() called again by a caller that has kept the map the run before     *)
(* returned                                                                *)

\* this.results: the one Map the constructor makes; resetResults clears it,
\* addResult writes to it and run() returns it.
ResultsObject == "this.results"

\* run(options) called by a caller who keeps what the run before returned:
\* which Map it is, and what the caller read in it.
RunKeeping(opts) ==
    RunWith(opts, IF pc = "done"
                  THEN Append(calls, [object |-> ResultsObject, read |-> results])
                  ELSE calls)

NextKeeping ==
    \/ \E opts \in RunOptions : RunKeeping(opts)
    \/ BeforeAll
    \/ BeforeEach
    \/ SkipTest
    \/ CallBody
    \/ ExecuteTest
    \/ AbandonedBodySettles
    \/ AfterEach
    \/ AfterAll

SpecKeeping == InitLive /\ [][NextKeeping]_vars

\* What the caller reads now in the i-th map kept.
KeptMap(i) == IF calls[i].object = ResultsObject THEN results ELSE calls[i].read

(* C35: the map a run() call returned is not modified by a later run()     *)
(* call on the same runner: the caller who kept it reads in it, while and  *)
(* after the next run, the results it held when it was returned.           *)
C35_ReturnedMapIsKept ==
    \A i \in 1..Len(calls) : KeptMap(i) = calls[i].read

----
\* generateOutput: the sum it tests before it writes anything but the tags.
totalTestsRan == failedTests + passedTests + skippedTests

\* generateOutput: the number of the line "Ran n tests in ...".
totalTests == passedTests + failedTests

(* C36: the total printed on the summary line of a run is the number of    *)
(* results recorded in the run, passed, failed and skipped together.       *)
C36_SummaryTotal ==
    (pc = "done" /\ totalTestsRan > 0) =>
       /\ totalTests = Cardinality(Recorded)
       /\ totalTests = passedTests + failedTests + skippedTests

----
(* utils/array-utils.ts, sharesOneElement: the function applied to two     *)
(* arrays of tags, in both orders                                          *)

InitShares ==
    /\ registry = [c \in {"M"} |->
                     [testList |-> Undefined,
                      annotations |-> [a \in Annotations |-> << >>],
                      classMetadata |-> Undefined]]
    /\ optionObjects = EmptyMap
    /\ descriptorObject = EmptyMap
    /\ addTestCalls = << >>
    /\ \E a \in TagLists, b \in TagLists :
          calls = <<[arr1 |-> a, arr2 |-> b, result |-> Undefined, swapped |-> Undefined]>>
    /\ isClient = FALSE
    /\ testClasses = << >>
    /\ NewRunner

\* sharesOneElement(arr1, arr2) and sharesOneElement(arr2, arr1) are called.
CallSharesOneElement ==
    /\ calls[1].result = Undefined
    /\ calls' = <<[calls[1] EXCEPT
                     !.result = Some(SharesOneElement(calls[1].arr1, calls[1].arr2)),
                     !.swapped = Some(SharesOneElement(calls[1].arr2, calls[1].arr1))]>>
    /\ UNCHANGED <<registry, optionObjects, descriptorObject, addTestCalls, isClient,
                   testClasses, results, failedTests, passedTests, skippedTests,
                   options, pc, classIdx, testList, testIdx, runs, bodyLog, hookRounds,
                   lastHook, resolved, reporterLog, running>>

NextShares == CallSharesOneElement

SpecShares == InitShares /\ [][NextShares]_vars

(* C37: sharesOneElement(a, b) is true exactly when a and b have an        *)
(* element in common, for arrays of any sizes, empty ones included, and    *)
(* sharesOneElement(b, a) is the same.                                     *)
C37_SharesOneElement ==
    IsDefined(calls[1].result) =>
       /\ calls[1].result[1] = (Range(calls[1].arr1) \cap Range(calls[1].arr2) # {})
       /\ calls[1].swapped = calls[1].result

\* The first array is the longer one and the common element is not among
\* the first elements of it.
C37_Witness ==
    /\ calls[1].result = Some(TRUE)
    /\ Len(calls[1].arr1) = 2
    /\ Len(calls[1].arr2) = 1
    /\ calls[1].arr1[1] # calls[1].arr2[1]

====
